---- MODULE Spec2Model ----
(***************************************************************************)
(* Model of the SQLite -> PostgreSQL migrator of the Claude Flow memory    *)
(* system (SQLiteToPostgreSQLMigrator), of migrateClaudeFlowData() that    *)
(* drives it, of the target table it writes and of the PostgreSQLBackend   *)
(* store on that table.                                                    *)
(*                                                                         *)
(* Encoding of values.  Text columns are small naturals: 0 is the falsy    *)
(* value (NULL or the empty string), 1, 2, ... are distinct non-empty      *)
(* strings.  A timestamp is 0 (NULL), a positive number (a parsable        *)
(* instant) or InvalidTs (text that `new Date` cannot parse; SQLite sorts  *)
(* text after numbers).  A JSON column of the source holds SqlNull or a    *)
(* JSON text.                                                              *)
(***************************************************************************)
EXTENDS Integers, Sequences, FiniteSets, TLC

\* ------------------------------------------------------------------ bounds
\* rows in the source table
MaxRows == 3
\* distinct non-empty ids
MaxId == 3
\* largest batchSize handed to the constructor
MaxBatch == 2
\* rows of the source that are not plain rows
MaxUnusual == 1
\* calls made on the migrator per behaviour
MaxCalls == 2
\* rows of a populated target that are missing or differ from the source
MaxDiffer == 2
\* distinct ids the clients of the store use
MaxStoreId == 2

\* ------------------------------------------------------ program constants
SampleLimit == 5

\* ------------------------------------------------------------ value model
SqlNull == "<NULL>"
InvalidTs == 0 - 1

JsonTexts == {"{}", "{\"k\":1}", "{\"namespace\":\"n1\"}",
              "[]", "[\"x\"]", "[\"y\"]", "[\"x\",\"y\"]"}
MalformedJson == "{oops"

JsonNullValue == [kind |-> "null", items |-> <<>>]

\* JSON.parse on the texts of the model; JsonParses is FALSE where it throws
JsonParses(s) == s \in JsonTexts

JsonParse(s) ==
  CASE s = "{}" -> [kind |-> "object", items |-> <<>>]
    [] s = "{\"k\":1}" -> [kind |-> "object", items |-> <<"k">>]
    [] s = "[]" -> [kind |-> "array", items |-> <<>>]
    [] s = "[\"x\"]" -> [kind |-> "array", items |-> <<"x">>]
    [] s = "[\"y\"]" -> [kind |-> "array", items |-> <<"y">>]
    [] s = "[\"x\",\"y\"]" -> [kind |-> "array", items |-> <<"x", "y">>]
    [] s = "{\"namespace\":\"n1\"}" ->
         [kind |-> "object", items |-> <<"namespace:n1">>]

\* JSON.stringify of a structured value (null gives the text "null")
JsonStringify(v) ==
  CASE v.kind = "null" -> "null"
    [] v.kind = "object" /\ v.items = <<>> -> "{}"
    [] v.kind = "object" /\ v.items = <<"k">> -> "{\"k\":1}"
    [] v.kind = "object" -> "{\"namespace\":\"n1\"}"
    [] v.kind = "array" /\ v.items = <<>> -> "[]"
    [] v.kind = "array" /\ v.items = <<"x">> -> "[\"x\"]"
    [] v.kind = "array" /\ v.items = <<"y">> -> "[\"y\"]"
    [] v.kind = "array" -> "[\"x\",\"y\"]"

\* `typeof col === 'string' ? JSON.parse(col) : col` on a source column
JsonColumnParses(col) == col = SqlNull \/ JsonParses(col)

JsonColumn(col) == IF col = SqlNull THEN JsonNullValue ELSE JsonParse(col)

\* ------------------------------------------------------------ source rows
BaseRow(i, t) ==
  [id |-> i, agent_id |-> 1, session_id |-> 1, type |-> 1, content |-> 1,
   context |-> "{}", timestamp |-> t, tags |-> "[]", version |-> 1,
   parent_id |-> 0, metadata |-> SqlNull]

\* ids are handed out round robin along the timestamp order, so that a
\* table of at most MaxId rows has distinct ids unless a row repeats one
IdAt(t) == ((t - 1) % MaxId) + 1

PlainRowAt(t) == BaseRow(IdAt(t), t)

\* one unusual row per way of being rejected by the codec or by the target:
\* an empty required field, malformed or NULL JSON, a parent that comes later
\* or earlier in the table, the id of the row before
UnusualRowsAt(t) ==
  { [PlainRowAt(t) EXCEPT !.id = 0],
    [PlainRowAt(t) EXCEPT !.agent_id = 0],
    [PlainRowAt(t) EXCEPT !.session_id = 0],
    [PlainRowAt(t) EXCEPT !.type = 0],
    [PlainRowAt(t) EXCEPT !.content = 0],
    [PlainRowAt(t) EXCEPT !.timestamp = 0],
    [PlainRowAt(t) EXCEPT !.context = MalformedJson],
    [PlainRowAt(t) EXCEPT !.context = SqlNull, !.version = 0],
    [PlainRowAt(t) EXCEPT !.parent_id = IdAt(t + 1)] }
  \cup (IF t = 1 THEN {}
        ELSE { [PlainRowAt(t) EXCEPT !.parent_id = IdAt(t - 1)],
               [PlainRowAt(t) EXCEPT !.id = IdAt(t - 1)] })

\* a table is listed in its `ORDER BY timestamp` order, where NULL sorts
\* first and text that is no number sorts last
TimestampOrdered(s) ==
  \A k \in 1..Len(s) :
    /\ s[k].timestamp = 0 => k = 1
    /\ s[k].timestamp = InvalidTs => k = Len(s)

\* the sequences of n rows with at most u unusual rows
RECURSIVE RowsOfLen(_, _)
RowsOfLen(n, u) ==
  IF n = 0 THEN { <<>> }
  ELSE { Append(s, PlainRowAt(n)) : s \in RowsOfLen(n - 1, u) }
       \cup (IF u = 0 THEN {}
             ELSE { Append(s, r) :
                      s \in RowsOfLen(n - 1, u - 1),
                      r \in UnusualRowsAt(n)
                            \cup { [PlainRowAt(n) EXCEPT !.timestamp = InvalidTs] } })

SourceTables ==
  { s \in UNION { RowsOfLen(n, MaxUnusual) : n \in 0..MaxRows } :
      TimestampOrdered(s) }

\* --------------------------------------------------------- Entry Codec
\* variant: content is not among the required fields
validateEntry_contentOptional(row) ==
  /\ ~(row.id = 0 \/ row.agent_id = 0 \/ row.session_id = 0 \/ row.type = 0)
  /\ ~(row.timestamp = 0)

\* validateEntry: TRUE where it returns, FALSE where it throws
validateEntry(row) ==
  /\ ~(row.id = 0 \/ row.agent_id = 0 \/ row.session_id = 0
        \/ row.type = 0 \/ row.content = 0)
  /\ ~(row.timestamp = 0)

\* convertEntry returns (TRUE) or throws (FALSE): validateEntry, then the
\* JSON.parse of each JSON column that is a string
convertEntryReturns(row) ==
  /\ validateEntry(row)
  /\ JsonColumnParses(row.context)
  /\ JsonColumnParses(row.tags)
  /\ (row.metadata # SqlNull => JsonParses(row.metadata))

\* the Date built by `new Date(row.timestamp)`: an instant or Invalid Date
NewDate(ts) == IF ts = InvalidTs THEN [valid |-> FALSE, time |-> 0]
               ELSE [valid |-> TRUE, time |-> ts]

\* parentId and metadata are absent from the entry when the column is falsy
Absent == [kind |-> "absent", items |-> <<>>]

convertEntry(row) ==
  [id |-> row.id,
   agentId |-> row.agent_id,
   sessionId |-> row.session_id,
   type |-> row.type,
   content |-> row.content,
   context |-> JsonColumn(row.context),
   timestamp |-> NewDate(row.timestamp),
   tags |-> JsonColumn(row.tags),
   version |-> IF row.version = 0 THEN 1 ELSE row.version,
   parentId |-> row.parent_id,
   metadata |-> IF row.metadata = SqlNull THEN Absent
                ELSE JsonParse(row.metadata)]

\* --------------------------------------------------------- target table
\* the parameter tuple insertBatch pushes for one entry
InsertParams(entry) ==
  [id |-> entry.id,
   agent_id |-> entry.agentId,
   session_id |-> entry.sessionId,
   type |-> entry.type,
   content |-> entry.content,
   context |-> JsonStringify(entry.context),
   timestamp |-> entry.timestamp.time,
   tags |-> JsonStringify(entry.tags),
   version |-> entry.version,
   parent_id |-> entry.parentId,
   metadata |-> IF entry.metadata = Absent THEN SqlNull
                ELSE JsonStringify(entry.metadata)]

SeqRange(s) == { s[k] : k \in 1..Len(s) }

RowIds(table) == { r.id : r \in table }

\* INSERT ... ON CONFLICT (id) DO UPDATE of the statement's rows
Upsert(table, params) ==
  { r \in table : r.id \notin RowIds(SeqRange(params)) } \cup SeqRange(params)

\* the multi-row upsert is rejected as a whole when toISOString throws on an
\* Invalid Date, when two of its rows carry the same id (ON CONFLICT cannot
\* affect a row twice), or when the resulting table would break the
\* parent_id foreign key
InsertRejected(table, entries) ==
  LET params == [k \in 1..Len(entries) |-> InsertParams(entries[k])]
      after == Upsert(table, params)
  IN  \/ \E k \in 1..Len(entries) : ~entries[k].timestamp.valid
      \/ \E j, k \in 1..Len(entries) : j # k /\ entries[j].id = entries[k].id
      \/ \E k \in 1..Len(entries) :
           params[k].parent_id # 0 /\ params[k].parent_id \notin RowIds(after)

insertBatch(table, entries) ==
  Upsert(table, [k \in 1..Len(entries) |-> InsertParams(entries[k])])

\* ------------------------------------------------------------------ state
VARIABLES
  sqliteRows,     \* the source table memory_entries, in ORDER BY timestamp order
  batchSize,      \* constructor argument
  sqliteLoaded,   \* this.sqliteLoaded
  sqliteDb,       \* this.sqliteDb is set
  pgPool,         \* this.pgPool is set
  initCompleted,  \* initialize() returned normally and shutdown() has not run since
  pgSchema,       \* claude_flow_graph.memory_entries exists in the target
  pgRows,         \* rows of claude_flow_graph.memory_entries
  pc,             \* position inside migrate(): idle, count, schema, loop, batch
  dryRun,         \* argument of the running migrate()
  stats,          \* the MigrationStats of the running or last migrate()
  offset,         \* loop variable of migrate()
  batch,          \* the page handed to migrateBatch
  result,         \* how the last call ended
  pages,          \* log of the pages fetched by the running or last migrate()
  disp,           \* the counter each source row was counted in, by position
  verification,   \* the value returned by the last verifyMigration()
  calls,          \* number of calls made on the migrator
  orch,           \* the running migrateClaudeFlowData(): position, options, outcome
  backend,        \* the PostgreSQLBackend: pool, initialized
  last            \* the last operation on the store or its table, and how it ended

vars == <<sqliteRows, batchSize, sqliteLoaded, sqliteDb, pgPool, initCompleted,
          pgSchema, pgRows, pc, dryRun, stats, offset, batch, result, pages,
          disp, verification, calls, orch, backend, last>>

source == <<sqliteRows, batchSize>>
handles == <<sqliteLoaded, sqliteDb, pgPool, initCompleted>>
target == <<pgSchema, pgRows>>
run == <<dryRun, stats, offset, batch, pages, disp>>
client == <<backend, last>>
others == <<orch, backend, last>>

ZeroStats == [totalEntries |-> 0, migratedEntries |-> 0, skippedEntries |-> 0,
              errors |-> 0]

NoVerification == [sqliteCount |-> 0, postgresCount |-> 0, match |-> FALSE,
                   sampleVerification |-> FALSE]

NoResult == [call |-> "none", kind |-> "none", message |-> "", cause |-> "",
             context |-> {}]

Returned(c) == [call |-> c, kind |-> "returned", message |-> "", cause |-> "",
                context |-> {}]

Pending(c) == [call |-> c, kind |-> "pending", message |-> "", cause |-> "",
               context |-> {}]

\* variant: the cause is not passed on to the new error
MemoryErrorWrapping_dropsCause(c, message, cause) ==
  [call |-> c, kind |-> "threw", message |-> message, cause |-> "",
   context |-> {}]

\* new MemoryError(message) and new MemoryError(message, { error })
MemoryError(c, message) ==
  [call |-> c, kind |-> "threw", message |-> message, cause |-> "",
   context |-> {}]

MemoryErrorWrapping(c, message, cause) ==
  [call |-> c, kind |-> "threw", message |-> message, cause |-> cause,
   context |-> {"error"}]

\* no migrateClaudeFlowData() is running
NoOrch == [pc |-> "none", dryRun |-> FALSE, verify |-> FALSE, outcome |-> NoResult]

\* new PostgreSQLBackend(connectionString, logger): no pool, initialized =
\* false.  shutDown records that shutdown() ran and no initialize() has
\* completed since
NewBackend == [pool |-> FALSE, initialized |-> FALSE, shutDown |-> FALSE]

NoEntry == [id |-> 0]
NoHealth == [healthy |-> FALSE, error |-> "", metrics |-> FALSE]

\* no operation yet.  entry, id and filter are the arguments of the
\* operation, value what retrieve or query returned, health what
\* getHealthStatus returned, affected
\* the ids of the rows already in the table that the operation changed or
\* removed
NoLast == [call |-> "none", kind |-> "none", message |-> "", id |-> 0,
           entry |-> NoEntry, value |-> NoEntry, affected |-> {},
           health |-> NoHealth, filter |-> NoEntry]

\* a row left in the target by earlier use of the store
StaleRow == [InsertParams(convertEntry(BaseRow(MaxId, 1))) EXCEPT !.content = 2]

\* the two databases and the batch size the migrator is constructed with
Databases ==
  /\ sqliteRows \in SourceTables
  /\ batchSize \in 1..MaxBatch
  /\ \/ pgSchema = FALSE /\ pgRows = {}
     \/ pgSchema = TRUE /\ pgRows = { StaleRow }

\* the migrator after `new SQLiteToPostgreSQLMigrator(...)`
NewMigrator ==
  /\ sqliteLoaded = FALSE
  /\ sqliteDb = FALSE
  /\ pgPool = FALSE
  /\ initCompleted = FALSE
  /\ pc = "idle"
  /\ dryRun = FALSE
  /\ stats = ZeroStats
  /\ offset = 0
  /\ batch = <<>>
  /\ result = NoResult
  /\ pages = <<>>
  /\ disp = [k \in 1..Len(sqliteRows) |-> "none"]
  /\ verification = NoVerification
  /\ calls = 0

Init ==
  /\ Databases
  /\ NewMigrator
  /\ orch = NoOrch
  /\ backend = NewBackend
  /\ last = NoLast

\* ------------------------------------------------- initialize / shutdown
\* initialize(): the step that throws, if any, decides which handles are set
InitializeOutcomes ==
  {"import", "isSQLiteAvailable", "createDatabase", "connect", "ok"}

initializeCall ==
  /\ pc = "idle"
  /\ \E o \in InitializeOutcomes :
       /\ (o = "import") => ~sqliteLoaded
       /\ sqliteLoaded' = (sqliteLoaded \/ o # "import")
       /\ sqliteDb' = (sqliteDb \/ o \in {"connect", "ok"})
       /\ pgPool' = (pgPool \/ o \in {"connect", "ok"})
       /\ initCompleted' = (initCompleted \/ o = "ok")
       /\ result' = IF o = "ok" THEN Returned("initialize")
                    ELSE MemoryErrorWrapping("initialize",
                           "Failed to initialize migrator", o)
  /\ UNCHANGED <<source, target, pc, run, verification, client>>

shutdownCall ==
  /\ pc = "idle"
  /\ sqliteDb' = FALSE
  /\ pgPool' = FALSE
  /\ initCompleted' = FALSE
  /\ result' = Returned("shutdown")
  /\ UNCHANGED <<source, sqliteLoaded, target, pc, run, verification, client>>

\* a call made by a client that holds the migrator
ClientCall == calls < MaxCalls /\ calls' = calls + 1 /\ UNCHANGED orch

initialize == ClientCall /\ initializeCall

shutdown == ClientCall /\ shutdownCall

\* ---------------------------------------------------------------- migrate
\* variant: the offset is taken as a page number
Page_countsPages(rows, limit, off) ==
  SubSeq(rows, off * limit + 1,
         IF off * limit + limit < Len(rows) THEN off * limit + limit ELSE Len(rows))

\* LIMIT limit OFFSET off over the ordered table
Page(rows, limit, off) ==
  SubSeq(rows, off + 1, IF off + limit < Len(rows) THEN off + limit ELSE Len(rows))

migrateCall(d) ==
  /\ pc = "idle"
  /\ IF ~sqliteDb \/ ~pgPool
     THEN /\ result' = MemoryError("migrate", "Migrator not initialized")
          /\ UNCHANGED <<pc, run>>
     ELSE /\ pc' = "count"
          /\ dryRun' = d
          /\ stats' = ZeroStats
          /\ offset' = 0
          /\ batch' = <<>>
          /\ pages' = <<>>
          /\ disp' = [k \in 1..Len(sqliteRows) |-> "none"]
          /\ result' = Pending("migrate")
  /\ UNCHANGED <<source, handles, target, verification, client>>

migrate(d) == ClientCall /\ migrateCall(d)

\* the catch block of migrate(): log and rethrow wrapped
MigrationFailed(cause) ==
  /\ result' = MemoryErrorWrapping("migrate", "Migration failed", cause)
  /\ pc' = "idle"

countProbe ==
  /\ pc = "count"
  /\ \E throws \in BOOLEAN :
       IF throws
       THEN /\ MigrationFailed("count probe")
            /\ UNCHANGED stats
       ELSE /\ stats' = [stats EXCEPT !.totalEntries = Len(sqliteRows)]
            /\ IF Len(sqliteRows) = 0
               THEN result' = Returned("migrate") /\ pc' = "idle"
               ELSE result' = result /\ pc' = IF dryRun THEN "loop" ELSE "schema"
  /\ UNCHANGED <<source, handles, target, dryRun, offset, batch, pages, disp,
                 verification, calls, others>>

createPostgreSQLTables ==
  /\ pc = "schema"
  /\ \E throws \in BOOLEAN :
       IF throws
       THEN /\ MigrationFailed("createPostgreSQLTables")
            /\ UNCHANGED pgSchema
       ELSE /\ pgSchema' = TRUE
            /\ pc' = "loop"
            /\ UNCHANGED result
  /\ UNCHANGED <<source, handles, pgRows, run, verification, calls, others>>

\* variant: the loop goes on while the offset has not passed the count
whileCondition_inclusive(off, totalEntries) == off <= totalEntries

\* the condition of the while loop: the count is the one taken before the
\* loop, it is not read again
whileCondition(off, totalEntries) == off < totalEntries

\* the head of the while loop and the page query
fetchPage ==
  /\ pc = "loop"
  /\ IF whileCondition(offset, stats.totalEntries)
     THEN \E throws \in BOOLEAN :
            IF throws
            THEN /\ MigrationFailed("page fetch")
                 /\ UNCHANGED <<batch, pages>>
            ELSE LET page == Page(sqliteRows, batchSize, offset)
                 IN  /\ batch' = page
                     /\ pages' = Append(pages, [offset |-> offset,
                                                rows |-> page,
                                                write |-> "pending"])
                     /\ IF Len(page) = 0
                        THEN result' = Returned("migrate") /\ pc' = "idle"
                        ELSE result' = result /\ pc' = "batch"
     ELSE /\ result' = Returned("migrate")
          /\ pc' = "idle"
          /\ UNCHANGED <<batch, pages>>
  /\ UNCHANGED <<source, handles, target, dryRun, stats, offset, disp,
                 verification, calls, others>>

\* the rows of the batch that convertEntry accepts, converted
pgEntriesOf(rows) ==
  LET kept == SelectSeq(rows, convertEntryReturns)
  IN  [k \in 1..Len(kept) |-> convertEntry(kept[k])]

\* variant: a rejected upsert leaves the batch out of every counter
migrateBatchStats_dropsFailed(rows, dry, upsertThrows) ==
  IF dry
  THEN [migratedEntries |-> Len(SelectSeq(rows, validateEntry)),
        skippedEntries |-> Len(rows) - Len(SelectSeq(rows, validateEntry)),
        errors |-> 0]
  ELSE LET pgEntries == pgEntriesOf(rows)
       IN  [migratedEntries |-> IF upsertThrows THEN 0 ELSE Len(pgEntries),
            skippedEntries |-> Len(rows) - Len(pgEntries),
            errors |-> 0]

\* variant: the batch is counted as migrated before the upsert is awaited
migrateBatchStats_countsEarly(rows, dry, upsertThrows) ==
  IF dry
  THEN [migratedEntries |-> Len(SelectSeq(rows, validateEntry)),
        skippedEntries |-> Len(rows) - Len(SelectSeq(rows, validateEntry)),
        errors |-> 0]
  ELSE LET pgEntries == pgEntriesOf(rows)
       IN  [migratedEntries |-> Len(pgEntries),
            skippedEntries |-> Len(rows) - Len(pgEntries),
            errors |-> IF upsertThrows THEN Len(pgEntries) ELSE 0]

\* migrateBatch: what it returns and what it writes.  upsertThrows is the
\* outcome of the awaited pool query
migrateBatchStats(rows, dry, upsertThrows) ==
  IF dry
  THEN [migratedEntries |-> Len(SelectSeq(rows, validateEntry)),
        skippedEntries |-> Len(rows) - Len(SelectSeq(rows, validateEntry)),
        errors |-> 0]
  ELSE LET pgEntries == pgEntriesOf(rows)
       IN  [migratedEntries |-> IF upsertThrows THEN 0 ELSE Len(pgEntries),
            skippedEntries |-> Len(rows) - Len(pgEntries),
            errors |-> IF upsertThrows THEN Len(pgEntries) ELSE 0]

\* the counter a row of the batch ends up in
rowCounter(row, dry, upsertThrows) ==
  IF dry
  THEN IF validateEntry(row) THEN "migrated" ELSE "skipped"
  ELSE IF ~convertEntryReturns(row) THEN "skipped"
       ELSE IF upsertThrows THEN "errors" ELSE "migrated"

\* variant: the dry-run flag is not consulted before the write
batchWrites_ignoresDryRun(dry, pgEntries) == Len(pgEntries) > 0

\* the upsert is attempted outside dry runs when some row survived conversion
batchWrites(dry, pgEntries) == ~dry /\ Len(pgEntries) > 0

\* variant: the rejected upsert is not caught and reaches the catch block of
\* migrate()
migrateBatchEnds_rethrows(upsertThrows) ==
  IF upsertThrows
  THEN /\ result' = [call |-> "migrate", kind |-> "threw",
                     message |-> "Migration failed", cause |-> "insertBatch",
                     context |-> {"error"}]
       /\ pc' = "idle"
  ELSE /\ pc' = "loop"
       /\ UNCHANGED result

\* a rejected upsert is caught and logged inside migrateBatch, which returns
\* its stats either way; the loop of migrate() goes on
migrateBatchEnds(upsertThrows) ==
  /\ pc' = "loop"
  /\ UNCHANGED result

\* variant: the promise of insertBatch is not awaited, the batch returns
\* while its write is under way
awaitedWrite_notAwaited(writes, upsertThrows) ==
  IF ~writes THEN "none" ELSE "pending"

\* `await this.insertBatch(pgEntries)` inside the try: when migrateBatch
\* returns, the write of the batch has settled, fulfilled or rejected
awaitedWrite(writes, upsertThrows) ==
  IF ~writes THEN "none"
  ELSE IF upsertThrows THEN "failed" ELSE "ok"

migrateBatch ==
  /\ pc = "batch"
  /\ \E connectionFails \in BOOLEAN :
       LET pgEntries == pgEntriesOf(batch)
           writes == batchWrites(dryRun, pgEntries)
           upsertThrows == writes /\ (connectionFails \/ ~pgSchema
                                        \/ InsertRejected(pgRows, pgEntries))
           batchStats == migrateBatchStats(batch, dryRun, upsertThrows)
       IN  /\ pgRows' = IF writes /\ ~upsertThrows
                        THEN insertBatch(pgRows, pgEntries) ELSE pgRows
           /\ stats' = [stats EXCEPT
                          !.migratedEntries = @ + batchStats.migratedEntries,
                          !.skippedEntries = @ + batchStats.skippedEntries,
                          !.errors = @ + batchStats.errors]
           /\ pages' = [pages EXCEPT ![Len(pages)].write =
                          awaitedWrite(writes, upsertThrows)]
           /\ disp' = [k \in DOMAIN disp |->
                         IF k > offset /\ k <= offset + Len(batch)
                         THEN rowCounter(batch[k - offset], dryRun, upsertThrows)
                         ELSE disp[k]]
           /\ migrateBatchEnds(upsertThrows)
  /\ offset' = offset + batchSize
  /\ UNCHANGED <<source, handles, pgSchema, dryRun, batch, verification, calls,
                 others>>

\* -------------------------------------------------------- verifyMigration
\* an error of the driver that reaches the caller as it is
DriverError(c, cause) ==
  [call |-> c, kind |-> "threw", message |-> cause, cause |-> "", context |-> {}]

VerifyFaults == {"none", "sqlite count", "pg count", "sample select", "sample lookup"}

\* variant: a sampled row passes as soon as its id is found
sampleMatches_idOnly(entry, table) ==
  \E pgEntry \in table : pgEntry.id = entry.id

\* one sampled source row against the target
sampleMatches(entry, table) ==
  \E pgEntry \in table :
    /\ pgEntry.id = entry.id
    /\ ~(pgEntry.agent_id # entry.agent_id
          \/ pgEntry.session_id # entry.session_id
          \/ pgEntry.content # entry.content)

\* the sample query or, when there is a sample, a lookup query throws into
\* the catch block of verifySampleEntries
sampleCaught(rows, fault) ==
  \/ fault = "sample select"
  \/ fault = "sample lookup" /\ Len(rows) > 0

\* verifySampleEntries: any error inside its try block gives false
verifySampleEntries(rows, table, fault) ==
  LET sampleEntries == Page(rows, SampleLimit, 0)
  IN  IF sampleCaught(rows, fault) THEN FALSE
      ELSE IF Len(sampleEntries) = 0 THEN TRUE
      ELSE \A k \in 1..Len(sampleEntries) : sampleMatches(sampleEntries[k], table)

\* variant: a target with more rows than the source still matches
countsMatch_atLeast(sqliteCount, postgresCount) == sqliteCount <= postgresCount

\* `match: sqliteCount === postgresCount`
countsMatch(sqliteCount, postgresCount) == sqliteCount = postgresCount

verifyMigrationCall ==
  /\ pc = "idle"
  /\ IF ~sqliteDb \/ ~pgPool
     THEN /\ result' = MemoryError("verifyMigration", "Migrator not initialized")
          /\ UNCHANGED verification
     ELSE \E fault \in VerifyFaults :
            IF fault = "sqlite count"
            THEN /\ result' = DriverError("verifyMigration", "sqlite count")
                 /\ UNCHANGED verification
            ELSE IF fault = "pg count" \/ ~pgSchema
            THEN /\ result' = DriverError("verifyMigration", "pg count")
                 /\ UNCHANGED verification
            ELSE /\ result' = [Returned("verifyMigration") EXCEPT
                                 !.cause = IF sampleCaught(sqliteRows, fault)
                                           THEN "Sample verification failed"
                                           ELSE ""]
                 /\ verification' =
                      [sqliteCount |-> Len(sqliteRows),
                       postgresCount |-> Cardinality(pgRows),
                       match |-> countsMatch(Len(sqliteRows),
                                             Cardinality(pgRows)),
                       sampleVerification |->
                         verifySampleEntries(sqliteRows, pgRows, fault)]
  /\ UNCHANGED <<source, handles, target, pc, run, client>>

verifyMigration == ClientCall /\ verifyMigrationCall

\* ------------------------------------------- verifying a populated target
\* the target row a clean live run writes for a source row
MigratedRow(row) == InsertParams(convertEntry(row))

\* source tables that reach past the sample: plain rows with distinct ids
VerifyTables ==
  { [k \in 1..n |-> BaseRow(k, k)] : n \in 0..(SampleLimit + 1) }

\* what the target can hold in place of a migrated row: nothing, or a row of
\* that id changed since in one column
DifferingRows(row) ==
  { {},
    { [MigratedRow(row) EXCEPT !.agent_id = 2] },
    { [MigratedRow(row) EXCEPT !.session_id = 2] },
    { [MigratedRow(row) EXCEPT !.content = 2] },
    { [MigratedRow(row) EXCEPT !.type = 2] } }

\* the targets that hold the migrated rows but for at most d of them
RECURSIVE TargetsOf(_, _)
TargetsOf(rows, d) ==
  IF rows = <<>> THEN { {} }
  ELSE LET front == SubSeq(rows, 1, Len(rows) - 1)
           lastRow == rows[Len(rows)]
       IN  { t \cup { MigratedRow(lastRow) } : t \in TargetsOf(front, d) }
           \cup (IF d = 0 THEN {}
                 ELSE { t \cup dr : t \in TargetsOf(front, d - 1),
                                    dr \in DifferingRows(lastRow) })

\* a row written to the target by another client of the store
StrayRow == MigratedRow(BaseRow(SampleLimit + 2, 1))

InitVerify ==
  /\ sqliteRows \in VerifyTables
  /\ batchSize = 1
  /\ pgSchema = TRUE
  /\ \E t \in TargetsOf(sqliteRows, MaxDiffer) :
       pgRows \in { t, t \cup { StrayRow } }
  /\ NewMigrator
  /\ orch = NoOrch
  /\ backend = NewBackend
  /\ last = NoLast

NextVerify ==
  \/ initialize
  \/ verifyMigration
  \/ shutdown

SpecVerify == InitVerify /\ [][NextVerify]_vars

\* -------------------------------------------------- migrateClaudeFlowData
\* variant: the shutdown is a plain statement after the try block, which a
\* throw skips
Finally_onlyOnReturn(outcome) ==
  IF outcome.kind = "threw"
  THEN [orch EXCEPT !.pc = "done", !.outcome = outcome]
  ELSE [orch EXCEPT !.pc = "finally", !.outcome = outcome]

\* leaving the try block, by return or by throw, enters the finally block
\* with the outcome that is delivered after it
Finally(outcome) == [orch EXCEPT !.pc = "finally", !.outcome = outcome]

\* variant: the dry-run option is not consulted
verifyRequested_ignoresDryRun(o) == o.verify

\* `if (options.verify && !options.dryRun)`
verifyRequested(o) == o.verify /\ ~o.dryRun

\* the function was called with some options; the migrator is constructed
InitOrch ==
  /\ Databases
  /\ NewMigrator
  /\ orch \in [pc : {"initialize"}, dryRun : BOOLEAN, verify : BOOLEAN,
                outcome : {NoResult}]
  /\ backend = NewBackend
  /\ last = NoLast

orchInitialize ==
  /\ orch.pc = "initialize"
  /\ initializeCall
  /\ orch' = IF result'.kind = "threw" THEN Finally(result')
             ELSE [orch EXCEPT !.pc = "migrate"]
  /\ UNCHANGED calls

orchMigrate ==
  /\ orch.pc = "migrate"
  /\ migrateCall(orch.dryRun)
  /\ orch' = IF result'.kind = "threw" THEN Finally(result')
             ELSE [orch EXCEPT !.pc = "await migrate"]
  /\ UNCHANGED calls

\* the awaited migrate() has settled: rethrow, go on to verify, or return
orchMigrateSettled ==
  /\ orch.pc = "await migrate"
  /\ pc = "idle"
  /\ orch' = IF result.kind = "threw" THEN Finally(result)
             ELSE IF verifyRequested(orch) THEN [orch EXCEPT !.pc = "verify"]
             ELSE Finally(Returned("migrateClaudeFlowData"))
  /\ UNCHANGED <<source, handles, target, pc, run, result, verification,
                 calls, client>>

orchVerify ==
  /\ orch.pc = "verify"
  /\ verifyMigrationCall
  /\ orch' = IF result'.kind = "threw" THEN Finally(result')
             ELSE IF ~verification'.match \/ ~verification'.sampleVerification
             THEN Finally(MemoryError("migrateClaudeFlowData",
                                      "Migration verification failed"))
             ELSE Finally(Returned("migrateClaudeFlowData"))
  /\ UNCHANGED calls

orchFinally ==
  /\ orch.pc = "finally"
  /\ shutdownCall
  /\ orch' = [orch EXCEPT !.pc = "done"]
  /\ UNCHANGED calls

NextOrch ==
  \/ orchInitialize
  \/ orchMigrate
  \/ countProbe
  \/ createPostgreSQLTables
  \/ fetchPage
  \/ migrateBatch
  \/ orchMigrateSettled
  \/ orchVerify
  \/ orchFinally

SpecOrch == InitOrch /\ [][NextOrch]_vars

\* ------------------------------------------------------ PostgreSQLBackend
\* the entries the clients of the store hand to it.  Content 2 comes with a
\* non-empty context, tags, a metadata object and a later version; an entry
\* names the entry of id 1 as its parent or has no parent
StoreEntry(i, c, p) ==
  [id |-> i, agentId |-> 1, sessionId |-> 1, type |-> 1, content |-> c,
   context |-> IF c = 1 THEN JsonParse("{}") ELSE JsonParse("{\"k\":1}"),
   timestamp |-> NewDate(c),
   tags |-> IF c = 1 THEN JsonParse("[]") ELSE JsonParse("[\"x\"]"),
   version |-> c,
   parentId |-> p,
   metadata |-> IF c = 1 THEN Absent ELSE JsonParse("{\"k\":1}")]

ValidStoreEntries ==
  { StoreEntry(i, c, p) : i \in 1..MaxStoreId, c \in {1, 2}, p \in {0, 1} }

StoreEntries ==
  ValidStoreEntries
  \cup { [StoreEntry(1, 1, 0) EXCEPT !.timestamp = NewDate(InvalidTs)] }

\* the parameters of store(): `entry.parentId || null`,
\* `entry.metadata ? JSON.stringify(entry.metadata) : null`
StoreParams(entry) ==
  [id |-> entry.id,
   agent_id |-> entry.agentId,
   session_id |-> entry.sessionId,
   type |-> entry.type,
   content |-> entry.content,
   context |-> JsonStringify(entry.context),
   timestamp |-> entry.timestamp.time,
   tags |-> JsonStringify(entry.tags),
   version |-> entry.version,
   parent_id |-> IF entry.parentId = 0 THEN 0 ELSE entry.parentId,
   metadata |-> IF entry.metadata = Absent THEN SqlNull
                ELSE JsonStringify(entry.metadata)]

\* a JSONB column as the driver hands it over
PgJson(col) == IF col = "null" THEN JsonNullValue ELSE JsonParse(col)

\* variant: the parent reference is not copied to the entry
rowToEntry_dropsParent(row) ==
  [id |-> row.id,
   agentId |-> row.agent_id,
   sessionId |-> row.session_id,
   type |-> row.type,
   content |-> row.content,
   context |-> PgJson(row.context),
   timestamp |-> NewDate(row.timestamp),
   tags |-> PgJson(row.tags),
   version |-> row.version,
   parentId |-> 0,
   metadata |-> IF row.metadata = SqlNull THEN Absent ELSE PgJson(row.metadata)]

\* rowToEntry: parentId and metadata are set only when the column is truthy
rowToEntry(row) ==
  [id |-> row.id,
   agentId |-> row.agent_id,
   sessionId |-> row.session_id,
   type |-> row.type,
   content |-> row.content,
   context |-> PgJson(row.context),
   timestamp |-> NewDate(row.timestamp),
   tags |-> PgJson(row.tags),
   version |-> row.version,
   parentId |-> IF row.parent_id = 0 THEN 0 ELSE row.parent_id,
   metadata |-> IF row.metadata = SqlNull THEN Absent ELSE PgJson(row.metadata)]

Undefined == [kind |-> "undefined"]

\* what retrieve(id) returns from a table: `SELECT * ... WHERE id = $1`
retrieved(table, id) ==
  IF id \notin RowIds(table) THEN Undefined
  ELSE rowToEntry(CHOOSE r \in table : r.id = id)

\* variant: the table has no foreign key on parent_id
storeRejected_noForeignKey(table, params) == FALSE

\* the parent_id foreign key on the table a single-row upsert would leave
storeRejected(table, params) ==
  params.parent_id # 0 /\ params.parent_id \notin RowIds(Upsert(table, <<params>>))

\* variant: the delete cascades to the children
deleteRow_cascades(table, id) ==
  { r \in table : r.id # id /\ r.parent_id # id }

\* `DELETE ... WHERE id = $1` under `ON DELETE SET NULL`
deleteRow(table, id) ==
  { IF r.parent_id = id THEN [r EXCEPT !.parent_id = 0] ELSE r :
      r \in { x \in table : x.id # id } }

\* the record of an operation that returned, and of one that threw
Done(c) == [NoLast EXCEPT !.call = c, !.kind = "returned"]
Threw(c, message) == [NoLast EXCEPT !.call = c, !.kind = "threw",
                                   !.message = message]

migrator == <<source, handles, pc, run, result, verification, calls, orch>>

BackendInitializeOutcomes == {"connect", "createTables", "createIndexes", "ok"}

\* initialize(): the pool is assigned before the first step that can throw
backendInitialize ==
  /\ \E o \in BackendInitializeOutcomes :
       /\ backend' = [pool |-> TRUE,
                      initialized |-> (backend.initialized \/ o = "ok"),
                      shutDown |-> (backend.shutDown /\ o # "ok")]
       /\ pgSchema' = (pgSchema \/ o \in {"createIndexes", "ok"})
       /\ last' = IF o = "ok" THEN Done("initialize")
                  ELSE Threw("initialize", "Failed to initialize PostgreSQL backend")
  /\ UNCHANGED <<migrator, pgRows>>

backendShutdown ==
  /\ backend' = [pool |-> FALSE, initialized |-> FALSE, shutDown |-> TRUE]
  /\ last' = [Done("shutdown") EXCEPT
                !.affected = IF backend.pool THEN {"pool.end"} ELSE {}]
  /\ UNCHANGED <<migrator, target>>

\* the body of store(entry), shared with update(id, entry)
storeCall(c, entry) ==
  /\ IF ~backend.pool
     THEN /\ last' = [Threw(c, "Database not initialized") EXCEPT !.entry = entry]
          /\ UNCHANGED pgRows
     ELSE IF ~entry.timestamp.valid
     THEN /\ last' = [Threw(c, "RangeError: Invalid time value") EXCEPT
                        !.entry = entry]
          /\ UNCHANGED pgRows
     ELSE \E connectionFails \in BOOLEAN :
            IF connectionFails \/ ~pgSchema
               \/ storeRejected(pgRows, StoreParams(entry))
            THEN /\ last' = [Threw(c, "Failed to store entry") EXCEPT
                               !.entry = entry]
                 /\ UNCHANGED pgRows
            ELSE /\ pgRows' = Upsert(pgRows, <<StoreParams(entry)>>)
                 /\ last' = [Done(c) EXCEPT
                               !.entry = entry,
                               !.affected = { r.id : r \in pgRows \ pgRows' }]
  /\ UNCHANGED <<migrator, pgSchema, backend>>

store == \E entry \in StoreEntries : storeCall("store", entry)

\* update(id, entry) hands the entry to store(); the id has no part in it
update == \E entry \in StoreEntries : storeCall("update", entry)

retrieve ==
  /\ \E id \in 1..MaxStoreId :
       IF ~backend.pool
       THEN last' = [Threw("retrieve", "Database not initialized") EXCEPT !.id = id]
       ELSE \E connectionFails \in BOOLEAN :
              IF connectionFails \/ ~pgSchema
              THEN last' = [Threw("retrieve", "Failed to retrieve entry") EXCEPT
                             !.id = id]
              ELSE last' = [Done("retrieve") EXCEPT
                             !.id = id, !.value = retrieved(pgRows, id)]
  /\ UNCHANGED <<migrator, target, backend>>

delete ==
  /\ \E id \in 1..MaxStoreId :
       IF ~backend.pool
       THEN /\ last' = [Threw("delete", "Database not initialized") EXCEPT !.id = id]
            /\ UNCHANGED pgRows
       ELSE \E connectionFails \in BOOLEAN :
              IF connectionFails \/ ~pgSchema
              THEN /\ last' = [Threw("delete", "Failed to delete entry") EXCEPT
                                 !.id = id]
                   /\ UNCHANGED pgRows
              ELSE /\ pgRows' = deleteRow(pgRows, id)
                   /\ last' = [Done("delete") EXCEPT
                                 !.id = id,
                                 !.affected = { r.id : r \in pgRows \ pgRows' }]
  /\ UNCHANGED <<migrator, pgSchema, backend>>

\* the probes of getHealthStatus, in order; "none" is no failure
HealthProbes == {"none", "SELECT 1", "COUNT(*)", "pg_total_relation_size"}

getHealthStatus ==
  /\ IF ~backend.pool
     THEN last' = [Done("getHealthStatus") EXCEPT
                    !.health = [healthy |-> FALSE,
                                error |-> "Database not initialized",
                                metrics |-> FALSE]]
     ELSE \E failing \in HealthProbes :
            LET failed == IF failing = "none" /\ ~pgSchema THEN "COUNT(*)"
                          ELSE failing
            IN  last' = [Done("getHealthStatus") EXCEPT
                          !.health = [healthy |-> (failed = "none"),
                                      error |-> IF failed = "none" THEN ""
                                                ELSE failed,
                                      metrics |-> (failed = "none")]]
  /\ UNCHANGED <<migrator, target, backend>>

\* the batches the migrator hands to insertBatch: no, one or two entries.
\* The order of the rows in the statement has no part in its outcome, so
\* one order stands for both
EntryRank(e) == 4 * e.id + 2 * e.content + e.parentId

Batches ==
  { <<>> }
  \cup { <<e>> : e \in StoreEntries }
  \cup { <<p[1], p[2]>> :
           p \in { q \in ValidStoreEntries \X ValidStoreEntries :
                     EntryRank(q[1]) <= EntryRank(q[2]) } }

\* insertBatch(entries) of a migrator that works on the same table; the
\* second disjunct is the statement failing for a reason of the connection
insertBatchCall ==
  /\ \/ \E entries \in Batches :
          IF ~pgPool \/ Len(entries) = 0
          THEN /\ last' = Done("insertBatch")
               /\ UNCHANGED pgRows
          ELSE IF ~pgSchema \/ InsertRejected(pgRows, entries)
          THEN /\ last' = Threw("insertBatch", "driver error")
               /\ UNCHANGED pgRows
          ELSE /\ pgRows' = insertBatch(pgRows, entries)
               /\ last' = [Done("insertBatch") EXCEPT
                             !.affected = { r.id : r \in pgRows \ pgRows' }]
     \/ /\ pgPool
        /\ last' = Threw("insertBatch", "driver error")
        /\ UNCHANGED pgRows
  /\ UNCHANGED <<migrator, pgSchema, backend>>

\* a new store on an empty database, next to a migrator that has completed
\* initialize() on the same database
InitStore ==
  /\ sqliteRows = <<>>
  /\ batchSize = 1
  /\ pgSchema = FALSE
  /\ pgRows = {}
  /\ sqliteLoaded = TRUE
  /\ sqliteDb = TRUE
  /\ pgPool = TRUE
  /\ initCompleted = TRUE
  /\ pc = "idle"
  /\ dryRun = FALSE
  /\ stats = ZeroStats
  /\ offset = 0
  /\ batch = <<>>
  /\ result = Returned("initialize")
  /\ pages = <<>>
  /\ disp = <<>>
  /\ verification = NoVerification
  /\ calls = 1
  /\ orch = NoOrch
  /\ backend = NewBackend
  /\ last = NoLast

NextStore ==
  \/ backendInitialize
  \/ backendShutdown
  \/ store
  \/ update
  \/ retrieve
  \/ delete
  \/ getHealthStatus
  \/ insertBatchCall

SpecStore == InitStore /\ [][NextStore]_vars

\* ------------------------------------------------------------------ query
\* the texts of the model: content 1 is the word "x", content 2 the word
\* "y", and a search term is one of these words
WordOf(n) == IF n = 1 THEN "x" ELSE "y"

\* `content ILIKE '%term%'` and `tags::text ILIKE '%term%'`
contentLike(row, term) == row.content = term

tagsTextLike(row, term) == WordOf(term) \in SeqRange(JsonParse(row.tags).items)

\* `tags::jsonb ? tag`
tagsHas(row, tag) == tag \in SeqRange(JsonParse(row.tags).items)

\* `metadata->>'namespace'`: 1 is the text n1, 0 is NULL
namespaceOf(row) ==
  IF row.metadata = "{\"namespace\":\"n1\"}" THEN 1 ELSE 0

\* a MemoryQuery.  0 is a field that is not given (or is the empty string),
\* <<>> no tags; limit and offset are Unset or a number
Unset == 0 - 1

\* variant: an entry must carry every given tag
tagConditions_all(row, tags) ==
  \A k \in 1..Len(tags) : tagsHas(row, tags[k])

\* the tag conditions, joined with OR
tagConditions(row, tags) ==
  \E k \in 1..Len(tags) : tagsHas(row, tags[k])

\* the WHERE clause query() builds: one condition per truthy field, joined
\* with AND
whereClause(row, q) ==
  /\ q.agentId # 0 => row.agent_id = q.agentId
  /\ q.sessionId # 0 => row.session_id = q.sessionId
  /\ q.type # 0 => row.type = q.type
  /\ q.startTime # 0 => row.timestamp >= q.startTime
  /\ q.endTime # 0 => row.timestamp <= q.endTime
  /\ q.search # 0 => (contentLike(row, q.search) \/ tagsTextLike(row, q.search))
  /\ Len(q.tags) > 0 => tagConditions(row, q.tags)
  /\ q.namespace # 0 => namespaceOf(row) = q.namespace

\* the orders `ORDER BY timestamp DESC` can give the rows of a set
OrderedDesc(rows) ==
  { s \in [1..Cardinality(rows) -> rows] :
      /\ \A j, k \in 1..Cardinality(rows) : j # k => s[j] # s[k]
      /\ \A k \in 1..(Cardinality(rows) - 1) :
           s[k].timestamp >= s[k + 1].timestamp }

\* `if (query.limit)` and `if (query.offset)`: LIMIT and OFFSET are added
\* only for a truthy number
limitOffset(s, q) ==
  LET skip == IF q.offset > 0 THEN q.offset ELSE 0
      rest == SubSeq(s, skip + 1, Len(s))
  IN  IF q.limit > 0 /\ q.limit < Len(rest) THEN SubSeq(rest, 1, q.limit)
      ELSE rest

\* the rows the tables of the query model are made of
QueryRow(i, agent, session, type, content, ts, tags, metadata) ==
  [id |-> i, agent_id |-> agent, session_id |-> session, type |-> type,
   content |-> content, context |-> "{}", timestamp |-> ts, tags |-> tags,
   version |-> 1, parent_id |-> 0, metadata |-> metadata]

QueryRows ==
  { QueryRow(1, 1, 1, 1, 1, 1, "[\"x\"]", SqlNull),
    QueryRow(2, 2, 1, 1, 2, 2, "[]", "{\"namespace\":\"n1\"}"),
    QueryRow(3, 1, 2, 2, 2, 2, "[\"x\",\"y\"]", "{\"k\":1}"),
    QueryRow(4, 1, 1, 1, 1, 3, "[\"y\"]", "{\"namespace\":\"n1\"}") }

MemoryQueries ==
  [agentId : {0, 1, 2}, sessionId : {0, 1}, type : {0, 1},
   startTime : {0, 2}, endTime : {0, 2}, search : {0, 1, 2},
   tags : { <<>>, <<"x">>, <<"x", "y">> }, namespace : {0, 1},
   limit : {Unset, 0, 1, 2}, offset : {Unset, 0, 1}]

\* query(q), for the call in flight
query ==
  /\ last.call = "query" /\ last.kind = "pending"
  /\ LET q == last.filter
     IN
       IF ~backend.pool
       THEN last' = [Threw("query", "Database not initialized") EXCEPT
                      !.filter = q]
       ELSE \/ last' = [Threw("query", "Failed to query entries") EXCEPT
                          !.filter = q]
            \/ /\ pgSchema
               /\ \E s \in OrderedDesc({ r \in pgRows : whereClause(r, q) }) :
                    LET rows == limitOffset(s, q)
                    IN  last' = [Done("query") EXCEPT
                                  !.filter = q,
                                  !.value = [k \in 1..Len(rows) |->
                                               rowToEntry(rows[k])]]
  /\ UNCHANGED <<migrator, target, backend>>

\* a store that has completed initialize(), on a table that holds some
\* entries, and a call of query() with some filter
InitQuery ==
  /\ sqliteRows = <<>>
  /\ batchSize = 1
  /\ pgSchema = TRUE
  /\ pgRows \in SUBSET QueryRows
  /\ NewMigrator
  /\ orch = NoOrch
  /\ backend = [pool |-> TRUE, initialized |-> TRUE, shutDown |-> FALSE]
  /\ \E q \in MemoryQueries :
       last = [NoLast EXCEPT !.call = "query", !.kind = "pending", !.filter = q]

NextQuery == query

SpecQuery == InitQuery /\ [][NextQuery]_vars

\* ------------------------------------------ a source that changes under
\* ------------------------------------------ the run
\* another connection writes to the SQLite file while migrate() is between
\* two of its steps, after the count was taken (a write before the count is
\* a run over another table).  A new row takes a timestamp no row holds and
\* its place in the timestamp order
FreeTimestamps ==
  { t \in 1..MaxRows : \A k \in 1..Len(sqliteRows) : sqliteRows[k].timestamp # t }

SortsBefore(row, t) == row.timestamp # InvalidTs /\ row.timestamp < t

InsertOrdered(rows, row) ==
  SelectSeq(rows, LAMBDA r : SortsBefore(r, row.timestamp))
    \o << row >>
    \o SelectSeq(rows, LAMBDA r : ~SortsBefore(r, row.timestamp))

RemoveAt(rows, k) == SubSeq(rows, 1, k - 1) \o SubSeq(rows, k + 1, Len(rows))

sourceGrows ==
  /\ pc \in {"schema", "loop", "batch"}
  /\ \E t \in FreeTimestamps : sqliteRows' = InsertOrdered(sqliteRows, PlainRowAt(t))
  /\ UNCHANGED <<batchSize, handles, target, pc, run, result, verification,
                 calls, others>>

sourceShrinks ==
  /\ pc \in {"schema", "loop", "batch"}
  /\ \E k \in 1..Len(sqliteRows) : sqliteRows' = RemoveAt(sqliteRows, k)
  /\ UNCHANGED <<batchSize, handles, target, pc, run, result, verification,
                 calls, others>>

\* the positions of a run between its call and its return or throw
RunPositions == {"count", "schema", "loop", "batch"}

\* a run leaves the position it is at.  Each position has one step (the
\* count probe, the table creation, the page query, the batch), that step is
\* the continuation of an awaited query or runs synchronously, and it always
\* moves pc
runAdvances == pc \in RunPositions /\ pc' \in (RunPositions \cup {"idle"})

\* the migrator after initialize() returned, its first call
Initialized ==
  /\ sqliteLoaded = TRUE
  /\ sqliteDb = TRUE
  /\ pgPool = TRUE
  /\ initCompleted = TRUE
  /\ pc = "idle"
  /\ dryRun = FALSE
  /\ stats = ZeroStats
  /\ offset = 0
  /\ batch = <<>>
  /\ result = Returned("initialize")
  /\ pages = <<>>
  /\ disp = [k \in 1..Len(sqliteRows) |-> "none"]
  /\ verification = NoVerification
  /\ calls = 1

\* the tables of rows that pass validation and are written without conflict
PlainTables == { [k \in 1..n |-> PlainRowAt(k)] : n \in 0..MaxRows }

\* an initialized migrator over a source other connections write to
InitLive ==
  /\ sqliteRows \in PlainTables
  /\ batchSize \in 1..MaxBatch
  /\ \/ pgSchema = FALSE /\ pgRows = {}
     \/ pgSchema = TRUE /\ pgRows = { StaleRow }
  /\ Initialized
  /\ orch = NoOrch
  /\ backend = NewBackend
  /\ last = NoLast

\* the call of migrate() that follows initialize()
migrateAfterInitialize(d) ==
  /\ result.call = "initialize"
  /\ migrateCall(d)
  /\ UNCHANGED <<calls, orch>>

NextLive ==
  \/ \E d \in BOOLEAN : migrateAfterInitialize(d)
  \/ countProbe
  \/ createPostgreSQLTables
  \/ fetchPage
  \/ migrateBatch
  \/ sourceGrows
  \/ sourceShrinks

\* every awaited query settles, so a run that is at a position leaves it
SpecLive == InitLive /\ [][NextLive]_vars /\ WF_pc(runAdvances)

\* ------------------------------------------------------------ second run
\* getAllEntries(): every entry of the store, latest timestamp first
getAllEntries ==
  /\ IF ~backend.pool
     THEN last' = Threw("getAllEntries", "Database not initialized")
     ELSE \/ last' = Threw("getAllEntries", "Failed to get all entries")
          \/ /\ pgSchema
             /\ \E s \in OrderedDesc(pgRows) :
                  last' = [Done("getAllEntries") EXCEPT
                            !.value = [k \in 1..Len(s) |-> rowToEntry(s[k])]]
  /\ UNCHANGED <<migrator, target, backend>>

\* the client reads the target once, after the first run has returned
readTarget ==
  /\ pc = "idle" /\ result.call = "migrate" /\ result.kind = "returned"
  /\ last = NoLast
  /\ getAllEntries

\* `new SQLiteToPostgreSQLMigrator(sqlitePath, connectionString, logger, b)`
\* over the same two databases, once the target was read
construct(b) ==
  /\ pc = "idle"
  /\ last.call = "getAllEntries" /\ last.kind = "returned"
  /\ calls < MaxCalls
  /\ calls' = calls + 1
  /\ batchSize' = b
  /\ sqliteLoaded' = FALSE
  /\ sqliteDb' = FALSE
  /\ pgPool' = FALSE
  /\ initCompleted' = FALSE
  /\ result' = NoResult
  /\ UNCHANGED <<sqliteRows, target, pc, run, verification, others>>

\* initialize() of the migrator just constructed
initializeConstructed ==
  /\ result = NoResult
  /\ initializeCall
  /\ UNCHANGED <<calls, orch>>

\* a batch of a run during which the connection to the target holds: its
\* write fails only when the target rejects the statement
batchOnSteadyConnection ==
  /\ migrateBatch
  /\ pages'[Len(pages)].write = "failed"
       => InsertRejected(pgRows, pgEntriesOf(batch))

\* an initialized migrator and an initialized store on the same target
InitRerun ==
  /\ Databases
  /\ Initialized
  /\ orch = NoOrch
  /\ backend = [pool |-> TRUE, initialized |-> TRUE, shutDown |-> FALSE]
  /\ last = NoLast

NextRerun ==
  \/ migrateAfterInitialize(FALSE)
  \/ countProbe
  \/ createPostgreSQLTables
  \/ fetchPage
  \/ batchOnSteadyConnection
  \/ readTarget
  \/ \E b \in 1..MaxBatch : construct(b)
  \/ initializeConstructed

SpecRerun == InitRerun /\ [][NextRerun]_vars

Next ==
  \/ initialize
  \/ shutdown
  \/ \E d \in BOOLEAN : migrate(d)
  \/ verifyMigration
  \/ countProbe
  \/ createPostgreSQLTables
  \/ fetchPage
  \/ migrateBatch

Spec == Init /\ [][Next]_vars

\* ----------------------------------------------------------------- claims
MigrateReturned == pc = "idle" /\ result.call = "migrate" /\ result.kind = "returned"

MigrateFailed ==
  pc = "idle" /\ result.call = "migrate" /\ result.kind = "threw"
  /\ result.message = "Migration failed"

InMigrate == pc # "idle"

Ceil(n, b) == (n + b - 1) \div b

RECURSIVE Concat(_)
Concat(ps) == IF ps = <<>> THEN <<>> ELSE ps[1].rows \o Concat(Tail(ps))

\* C1: no step of a dry run, from the call to its return or throw, changes
\* the rows or the schema of the target
C1_DryRunLeavesTarget ==
  [][((dryRun /\ InMigrate) \/ (dryRun' /\ pc' # "idle"))
       => (pgRows' = pgRows /\ pgSchema' = pgSchema)]_vars

C1_Witness ==
  /\ MigrateReturned /\ dryRun
  /\ stats.migratedEntries > 0 /\ stats.skippedEntries > 0
  /\ pgRows = { StaleRow }

\* C2: when migrate() returns, totalEntries is the number of source rows and
\* migratedEntries + skippedEntries + errors = totalEntries
C2_Conservation ==
  MigrateReturned =>
    /\ stats.totalEntries = Len(sqliteRows)
    /\ stats.migratedEntries + stats.skippedEntries + stats.errors
         = stats.totalEntries

C2_Witness ==
  /\ MigrateReturned /\ ~dryRun
  /\ stats.migratedEntries > 0 /\ stats.skippedEntries > 0 /\ stats.errors > 0

\* C3: pages are fetched at offsets 0, B, 2B, ..., each holds the next rows
\* of the timestamp order, all are full except possibly the last, none is
\* empty, and a returned run over N > 0 rows fetched ceil(N/B) pages that
\* together are the source table
C3_BatchPartitioning ==
  /\ \A k \in 1..Len(pages) :
       /\ pages[k].offset = (k - 1) * batchSize
       /\ pages[k].rows =
            SubSeq(sqliteRows, (k - 1) * batchSize + 1,
                   IF k * batchSize < Len(sqliteRows) THEN k * batchSize
                   ELSE Len(sqliteRows))
       /\ Len(pages[k].rows) > 0
       /\ k < Len(pages) => Len(pages[k].rows) = batchSize
  /\ (MigrateReturned /\ Len(sqliteRows) > 0) =>
       /\ Len(pages) = Ceil(Len(sqliteRows), batchSize)
       /\ Concat(pages) = sqliteRows

C3_Witness ==
  /\ MigrateReturned
  /\ Len(sqliteRows) = 3 /\ batchSize = 2
  /\ Len(pages) = 2 /\ Len(pages[2].rows) = 1

\* C4: a row with a missing or empty required field is counted as skipped
\* and in no other counter, in both modes and whatever happens to the write
\* of its batch, and no row of the target lacks a required field
RequiredPresent(row) ==
  /\ row.id # 0 /\ row.agent_id # 0 /\ row.session_id # 0
  /\ row.type # 0 /\ row.content # 0 /\ row.timestamp # 0

C4_InvalidRowSkipped ==
  /\ \A k \in 1..Len(sqliteRows) :
       (disp[k] # "none" /\ ~RequiredPresent(sqliteRows[k])) => disp[k] = "skipped"
  /\ stats.skippedEntries >=
       Cardinality({ k \in 1..Len(sqliteRows) :
                       disp[k] # "none" /\ ~RequiredPresent(sqliteRows[k]) })
  /\ \A r \in pgRows : RequiredPresent(r)

C4_Witness ==
  /\ ~dryRun
  /\ \E j, k \in 1..Len(sqliteRows) :
       /\ ~RequiredPresent(sqliteRows[k]) /\ sqliteRows[k].content = 0
       /\ disp[k] = "skipped"
       /\ disp[j] = "errors"
       /\ \E p \in 1..Len(pages) :
            /\ pages[p].offset < j /\ j <= pages[p].offset + batchSize
            /\ pages[p].offset < k /\ k <= pages[p].offset + batchSize

UpsertFailedStep == pc = "batch" /\ pages'[Len(pages)].write = "failed"

RejectedByCodec(rows) == Len(rows) - Len(SelectSeq(rows, convertEntryReturns))

\* C5 as stated: a failed upsert adds the row count of the whole batch to
\* errors, adds nothing to migratedEntries and writes nothing
C5_WholeBatchCountedAsErrors ==
  [][UpsertFailedStep =>
       /\ stats'.errors = stats.errors + Len(batch)
       /\ stats'.migratedEntries = stats.migratedEntries
       /\ pgRows' = pgRows]_vars

\* C5 amended: a failed upsert adds to errors the number of rows of the batch
\* that passed conversion (the rows the codec rejected go to skippedEntries),
\* adds nothing to migratedEntries and writes nothing
C5_WriteSetCountedAsErrors ==
  [][UpsertFailedStep =>
       /\ stats'.errors = stats.errors + (Len(batch) - RejectedByCodec(batch))
       /\ stats'.skippedEntries = stats.skippedEntries + RejectedByCodec(batch)
       /\ stats'.migratedEntries = stats.migratedEntries
       /\ pgRows' = pgRows]_vars

C5_Witness ==
  /\ ~dryRun /\ pc = "loop" /\ batchSize = 2
  /\ Len(pages) > 0
  /\ pages[Len(pages)].write = "failed"
  /\ Len(batch) = 2 /\ RejectedByCodec(batch) = 1
  /\ stats.errors = 1 /\ stats.skippedEntries = 1 /\ stats.migratedEntries = 0

RunFailures == {"count probe", "createPostgreSQLTables", "page fetch"}

\* C6: the step that processes a batch never throws and always hands control
\* back to the loop with the offset advanced, whatever the rows are and
\* whether or not the upsert is rejected; only the count probe, the schema
\* creation and a page fetch make migrate() throw; a returned run has fetched
\* every page; and the ids of every batch whose upsert succeeded are in the
\* target whatever happened to the other batches
C6_PartialFailureIsolation ==
  /\ [](/\ (result.call = "migrate" /\ result.kind = "threw"
              /\ result.message = "Migration failed")
              => result.cause \in RunFailures
        /\ (MigrateReturned /\ Len(sqliteRows) > 0)
              => /\ Len(pages) = Ceil(Len(sqliteRows), batchSize)
                 /\ \A k \in 1..Len(pages) : pages[k].write # "pending"
        /\ \A k \in 1..Len(pages) :
              pages[k].write = "ok" =>
                \A j \in 1..Len(pages[k].rows) :
                  convertEntryReturns(pages[k].rows[j])
                    => pages[k].rows[j].id \in RowIds(pgRows))
  /\ [][pc = "batch" =>
          /\ pc' = "loop"
          /\ offset' = offset + batchSize
          /\ result' = result]_vars

C6_Witness ==
  /\ MigrateReturned /\ ~dryRun
  /\ Len(pages) = 3
  /\ pages[1].write = "failed" /\ pages[2].write = "ok" /\ pages[3].write = "none"
  /\ stats.errors = 1 /\ stats.migratedEntries = 1 /\ stats.skippedEntries = 1
  /\ pages[2].rows[1].id \in RowIds(pgRows)

\* C7: a throw of the count probe, of the schema creation or of a page fetch
\* ends the run at once with the error 'Migration failed' that wraps the
\* cause; that step and every step after it until the next call leave the
\* rows of the target and the log of fetched pages as they are
C7_RunFailureAborts ==
  [][/\ (InMigrate /\ result'.kind = "threw") =>
          /\ pc' = "idle"
          /\ result'.call = "migrate"
          /\ result'.message = "Migration failed"
          /\ result'.cause \in RunFailures
          /\ "error" \in result'.context
          /\ pgRows' = pgRows
          /\ pages' = pages
          /\ stats' = stats
     /\ (pc = "idle" /\ pc' = "idle") => (pgRows' = pgRows /\ pages' = pages)]_vars

C7_Witness ==
  /\ MigrateFailed /\ ~dryRun
  /\ result.cause = "page fetch"
  /\ Len(pages) = 1 /\ pages[1].write = "ok"
  /\ pages[1].rows[1].id \in RowIds(pgRows)
  /\ StaleRow \notin pgRows
  /\ Len(sqliteRows) > batchSize

\* C8: the error of a run that failed after at least one batch was processed
\* carries the accumulated MigrationStats in its context
C8_ErrorCarriesStats ==
  (MigrateFailed /\ Len(pages) >= 1) => "stats" \in result.context

\* C9: migrate() called while initialize() has not completed since
\* construction or since the last shutdown() ends with the not-initialized
\* error (so it never gets as far as the count probe or a page)
C9_MigrateNeedsInitialize ==
  (result.call = "migrate" /\ ~initCompleted) =>
    /\ result.kind = "threw"
    /\ result.message = "Migrator not initialized"
    /\ pc = "idle"

\* C10: verifyMigration() on an initialized migrator always returns a value
C10_VerifyNeverThrows ==
  (result.call = "verifyMigration" /\ initCompleted) => result.kind = "returned"

\* C13: every execution of migrateClaudeFlowData() calls shutdown() before
\* it returns or throws, whatever the outcome of initialize, migrate and
\* verification, and calls it only once those steps have finished
C13_ShutdownAlways ==
  /\ [](orch.pc = "done"
         => (result.call = "shutdown" /\ ~sqliteDb /\ ~pgPool))
  /\ [][(result'.call = "shutdown" /\ result.call # "shutdown")
         => (/\ orch.pc = "finally"
             /\ pc = "idle"
             /\ result.kind \in {"returned", "threw"}
             /\ orch.outcome.kind \in {"returned", "threw"})]_vars

C13_Witness ==
  /\ orch.pc = "done"
  /\ orch.outcome.kind = "threw"
  /\ orch.outcome.message = "Migration verification failed"
  /\ result.call = "shutdown"

VerificationFailed ==
  orch.outcome.kind = "threw"
  /\ orch.outcome.message = "Migration verification failed"

\* C14: migrateClaudeFlowData() calls verifyMigration() only after migrate()
\* returned and only when verify was requested outside a dry run; it throws
\* the verification-failed error exactly when the verification came back
\* with match false or sampleVerification false; in a dry run it neither
\* verifies nor throws that error, even when verify was requested
C14_VerifyGate ==
  /\ [](orch.pc = "finally"
         => (VerificationFailed
             <=> (/\ result.call = "verifyMigration"
                  /\ result.kind = "returned"
                  /\ (~verification.match \/ ~verification.sampleVerification))))
  /\ [](orch.dryRun
         => (result.call # "verifyMigration" /\ ~VerificationFailed))
  /\ [][(result'.call = "verifyMigration" /\ result.call # "verifyMigration")
         => (/\ orch.verify /\ ~orch.dryRun
             /\ pc = "idle"
             /\ result.call = "migrate" /\ result.kind = "returned")]_vars

C14_Witness ==
  /\ orch.pc = "done"
  /\ orch.verify /\ orch.dryRun
  /\ orch.outcome.kind = "returned"
  /\ stats.migratedEntries > 0
  /\ verification = NoVerification
VerifyReturned == result.call = "verifyMigration" /\ result.kind = "returned"

\* C11: the record verifyMigration() returns carries both counts and
\* match = (sqliteCount = postgresCount), whatever sampleVerification is; a
\* target holding every migrated row and one stray row gives match false
C11_MatchIsCountEquality ==
  VerifyReturned =>
    /\ verification.sqliteCount = Len(sqliteRows)
    /\ verification.postgresCount = Cardinality(pgRows)
    /\ verification.match
         <=> (verification.sqliteCount = verification.postgresCount)
    /\ (pgRows = { MigratedRow(sqliteRows[k]) : k \in 1..Len(sqliteRows) }
                  \cup { StrayRow })
         => ~verification.match

\* the stray-row target: match false, sampleVerification true
C11_Witness ==
  /\ VerifyReturned
  /\ Len(sqliteRows) > 0
  /\ pgRows = { MigratedRow(sqliteRows[k]) : k \in 1..Len(sqliteRows) }
               \cup { StrayRow }
  /\ ~verification.match
  /\ verification.sampleVerification

\* the SampleLimit earliest source rows each have a target row of the same
\* id with the same agent_id, session_id and content
SampleAgrees ==
  \A k \in 1..Len(sqliteRows) :
    k <= SampleLimit =>
      \E r \in pgRows :
        /\ r.id = sqliteRows[k].id
        /\ r.agent_id = sqliteRows[k].agent_id
        /\ r.session_id = sqliteRows[k].session_id
        /\ r.content = sqliteRows[k].content

\* C12 as stated: sampleVerification is true exactly when the sample agrees
C12_SampleExactly ==
  VerifyReturned => (verification.sampleVerification <=> SampleAgrees)

\* C12: when no query of the sample check fails, sampleVerification is true
\* exactly when the sample agrees, so rows past the sample have no
\* influence; when one fails, sampleVerification is false
C12_SampleExactlyUnlessQueryFails ==
  VerifyReturned =>
    IF result.cause = ""
    THEN verification.sampleVerification <=> SampleAgrees
    ELSE ~verification.sampleVerification

\* a source row past the sample is missing from the target or differs there
C12_Witness ==
  /\ VerifyReturned
  /\ result.cause = ""
  /\ Len(sqliteRows) > SampleLimit
  /\ \E k \in (SampleLimit + 1)..Len(sqliteRows) :
       MigratedRow(sqliteRows[k]) \notin pgRows
  /\ verification.sampleVerification
StoreStep(c) == last'.call = c /\ last'.kind = "returned"

C16_DeleteClearsChildren ==
  [][StoreStep("delete")
       => (/\ RowIds(pgRows') = RowIds(pgRows) \ { last'.id }
           /\ \A r \in pgRows :
                r.id # last'.id
                  => (IF r.parent_id = last'.id
                      THEN [r EXCEPT !.parent_id = 0]
                      ELSE r) \in pgRows')]_vars

\* the deleted entry had a child, which is still there without its parent
C16_Witness ==
  /\ last.call = "delete" /\ last.kind = "returned"
  /\ last.id = 1
  /\ Cardinality(last.affected) >= 2
  /\ \E r \in pgRows : r.id \in last.affected /\ r.parent_id = 0 /\ r.content = 2

\* ids are unique and every parent_id is NULL or the id of a row
TargetConsistent(table) ==
  /\ \A r1, r2 \in table : r1.id = r2.id => r1 = r2
  /\ \A r \in table : r.parent_id = 0 \/ r.parent_id \in RowIds(table)

WriteCalls == {"store", "update", "delete", "insertBatch"}

\* C17: under store, update, delete and the migrator's batch writes the
\* table keeps its ids unique and its parent references resolvable; a write
\* that ends in an error leaves the table as it was, and a store whose
\* parent would dangle ends in an error
C17_ReferentialIntegrity ==
  /\ [](TargetConsistent(pgRows))
  /\ [][(last'.call \in WriteCalls /\ last'.kind = "threw")
         => pgRows' = pgRows]_vars
  /\ [][(/\ last'.call \in {"store", "update"}
          /\ last'.entry.parentId # 0
          /\ last'.entry.parentId \notin RowIds(pgRows) \cup { last'.entry.id })
         => (last'.kind = "threw" /\ pgRows' = pgRows)]_vars

\* a store naming a parent that is not in the table was rejected
C17_Witness ==
  /\ last.call = "store" /\ last.kind = "threw"
  /\ last.message = "Failed to store entry"
  /\ last.entry.parentId = 1
  /\ 1 \notin RowIds(pgRows)
  /\ pgRows # {}
  /\ backend.initialized

CrudCalls == {"store", "update", "retrieve", "delete"}

\* C19 as stated: once shutdown() has run, every CRUD operation fails with
\* the not-initialized error until an initialize() completes
C19_NotInitializedAfterShutdown ==
  (last.call \in CrudCalls /\ backend.shutDown)
    => (last.kind = "threw" /\ last.message = "Database not initialized")

\* C20 as stated: getHealthStatus() returns, with healthy false and an
\* error text when the store is not initialized or a probe failed, and with
\* healthy true and metrics only when no probe failed
C20_HealthNeverThrows ==
  last.call = "getHealthStatus"
    => (/\ last.kind = "returned"
        /\ ~backend.initialized
             => (~last.health.healthy /\ last.health.error # "")
        /\ last.health.healthy <=> last.health.error = ""
        /\ last.health.healthy <=> last.health.metrics
        /\ last.health.healthy => pgSchema)
\* the entry satisfies every field the filter gives: equality on agentId,
\* sessionId and type, the time window, the search term in the content or
\* in a tag, one of the given tags among its tags, the namespace of its
\* metadata
Satisfies(e, q) ==
  /\ q.agentId # 0 => e.agentId = q.agentId
  /\ q.sessionId # 0 => e.sessionId = q.sessionId
  /\ q.type # 0 => e.type = q.type
  /\ q.startTime # 0 => e.timestamp.time >= q.startTime
  /\ q.endTime # 0 => e.timestamp.time <= q.endTime
  /\ q.search # 0
       => (e.content = q.search \/ WordOf(q.search) \in SeqRange(e.tags.items))
  /\ q.tags # <<>> => (SeqRange(q.tags) \cap SeqRange(e.tags.items) # {})
  /\ q.namespace # 0
       => (q.namespace = 1 /\ e.metadata # Absent
           /\ e.metadata.items = <<"namespace:n1">>)

\* C18: without limit and offset, query(filter) returns each entry of the
\* store that satisfies every given field once, and no other, latest
\* timestamp first
C18_QueryFilter ==
  (/\ last.call = "query" /\ last.kind = "returned"
   /\ last.filter.limit = Unset /\ last.filter.offset = Unset)
    => (/\ { last.value[k] : k \in 1..Len(last.value) }
             = { e \in { retrieved(pgRows, r.id) : r \in pgRows } :
                   Satisfies(e, last.filter) }
        /\ \A j, k \in 1..Len(last.value) :
             j < k => /\ last.value[j].id # last.value[k].id
                      /\ last.value[j].timestamp.time
                           >= last.value[k].timestamp.time)

\* two given tags and an agent: an entry with one of the tags is returned,
\* an entry of another agent is not
C18_Witness ==
  /\ last.call = "query" /\ last.kind = "returned"
  /\ last.filter.limit = Unset /\ last.filter.offset = Unset
  /\ last.filter.tags = <<"x", "y">>
  /\ last.filter.agentId = 1
  /\ last.filter.startTime = 2
  /\ Len(last.value) = 2
  /\ Cardinality(pgRows) = 4
  /\ \E k \in 1..2 : last.value[k].tags.items = <<"y">>

\* ------------------------------------------------------------ termination
\* the page queries issued so far by the run: the pages fetched and the
\* query that threw, if one did
PageFetches ==
  Len(pages) + (IF MigrateFailed /\ result.cause = "page fetch" THEN 1 ELSE 0)

\* C21: a started migrate() eventually returns or throws, and it never
\* issues more than ceil(totalEntries / batchSize) page queries, whether or
\* not rows are inserted into or deleted from the source during the run
C21_Termination ==
  /\ [](PageFetches <= Ceil(stats.totalEntries, batchSize))
  /\ (InMigrate ~> (MigrateReturned \/ MigrateFailed))

C21_Witness ==
  /\ MigrateReturned
  /\ Len(sqliteRows) > stats.totalEntries
  /\ stats.totalEntries = 2 /\ batchSize = 1
  /\ PageFetches = 2

\* ------------------------------------------------------------ sequencing
\* batch k of the run is in flight: its page was fetched and its write has
\* not settled
InFlight(k) == pages[k].write = "pending" /\ Len(pages[k].rows) > 0

\* C22: the batches of a run are strictly sequential.  Only the batch
\* fetched last can be in flight, and only while migrateBatch runs; a page
\* is fetched only when every earlier batch has settled; the offset moves
\* when a batch finishes, by exactly batchSize (and back to 0 when a new run
\* starts)
C22_SequentialBatches ==
  /\ [](\A k \in 1..Len(pages) : InFlight(k) => (k = Len(pages) /\ pc = "batch"))
  /\ [][Len(pages') > Len(pages) => \A k \in 1..Len(pages) : ~InFlight(k)]_vars
  /\ [][(offset' # offset) =>
          \/ pc = "batch" /\ offset' = offset + batchSize
          \/ pc = "idle" /\ offset' = 0]_vars
  /\ [][(pc = "batch" /\ pc' # "batch") => offset' = offset + batchSize]_vars

C22_Witness ==
  /\ MigrateReturned /\ ~dryRun
  /\ Len(pages) = 2
  /\ pages[1].write = "ok" /\ pages[2].write = "failed"
  /\ offset = 2 * batchSize

\* ------------------------------------------------------- limit and offset
\* rows o + 1 .. o + l of a sequence, as far as it reaches
Slice(s, o, l) ==
  SubSeq(s, o + 1, IF o + l < Len(s) THEN o + l ELSE Len(s))

\* C23: when the filter gives a limit L >= 0, query returns the entries at
\* positions O .. O+L-1 (O the given offset, 0 when none is given) of the
\* entries that satisfy the filter, latest timestamp first; never more
\* than L entries, none for L = 0
C23_LimitOffsetSlice ==
  (/\ last.call = "query" /\ last.kind = "returned"
   /\ last.filter.limit # Unset)
    => \E s \in OrderedDesc({ r \in pgRows : Satisfies(rowToEntry(r), last.filter) }) :
         LET O == IF last.filter.offset = Unset THEN 0 ELSE last.filter.offset
             rows == Slice(s, O, last.filter.limit)
         IN  last.value = [k \in 1..Len(rows) |-> rowToEntry(rows[k])]

\* --------------------------------------------------------- codec defaults
\* the rows of the page written last, once its upsert has succeeded
WrittenRows ==
  IF Len(pages) > 0 /\ pages[Len(pages)].write = "ok"
  THEN SeqRange(SelectSeq(pages[Len(pages)].rows, validateEntry))
  ELSE {}

\* C24: a row that passes validation and has no context, no tags or no
\* version is converted with the defaults: it is written like any other
\* valid row, and its entry in the target has the empty object as context,
\* the empty sequence as tags, version 1
C24_CodecDefaults ==
  \A row \in WrittenRows :
    /\ convertEntryReturns(row) =>
         /\ row.context = SqlNull => convertEntry(row).context = JsonParse("{}")
         /\ row.tags = SqlNull => convertEntry(row).tags = JsonParse("[]")
         /\ row.version = 0 => convertEntry(row).version = 1
    /\ \E r \in pgRows :
         /\ r.id = row.id
         /\ row.context = SqlNull => r.context = "{}"
         /\ row.tags = SqlNull => r.tags = "[]"
         /\ row.version = 0 => r.version = 1

\* ----------------------------------------------------------- clean runs
\* the source of a clean run: ids are unique, every row passes validation
\* and has well-formed JSON fields and a timestamp that is an instant, a
\* parent is a row of the source
CleanSource(rows) ==
  /\ \A j, k \in 1..Len(rows) : j # k => rows[j].id # rows[k].id
  /\ \A k \in 1..Len(rows) :
       /\ convertEntryReturns(rows[k])
       /\ NewDate(rows[k].timestamp).valid
       /\ rows[k].parent_id # 0 => rows[k].parent_id \in RowIds(SeqRange(rows))

\* the target holds the row of the source as insertBatch writes it
HoldsAll(table, rows) ==
  \A k \in 1..Len(rows) : InsertParams(convertEntry(rows[k])) \in table

\* C25: in a live run over a clean source the target itself rejects no
\* batch while the writes before it succeeded, so that a write fails only
\* when the connection does; and when the
\* run returns with no failed write, errors and skippedEntries are 0,
\* migratedEntries is totalEntries and the target holds every source row
\* with its field values, wherever the parent of a row sits in the source
C25_CleanRunComplete ==
  (~dryRun /\ CleanSource(sqliteRows)) =>
    /\ (pc = "batch" /\ \A k \in 1..(Len(pages) - 1) : pages[k].write = "ok")
         => ~InsertRejected(pgRows, pgEntriesOf(batch))
    /\ (/\ MigrateReturned
        /\ \A k \in 1..Len(pages) : pages[k].write = "ok")
         => /\ stats.errors = 0 /\ stats.skippedEntries = 0
            /\ stats.migratedEntries = stats.totalEntries
            /\ stats.totalEntries = Len(sqliteRows)
            /\ HoldsAll(pgRows, sqliteRows)

\* ------------------------------------------------------------ idempotence
\* C26: a second live run over the same source, with the same batch size
\* or another, leaves the target as the first run left it: the same entries
\* with the same field values, none lost, no id twice
C26_RerunIdempotent ==
  (/\ MigrateReturned /\ ~dryRun
   /\ calls > 1
   /\ last.call = "getAllEntries" /\ last.kind = "returned"
   /\ CleanSource(sqliteRows))
    => /\ { rowToEntry(r) : r \in pgRows } = SeqRange(last.value)
       /\ \A r1, r2 \in pgRows : r1.id = r2.id => r1 = r2

\* ---------------------------------------------------- dry run and live run
\* what a dry run with the same batch size counts over the pages of the run:
\* the sum of what migrateBatch returns for each page in dry-run mode
RECURSIVE DryRunOver(_)
DryRunOver(ps) ==
  IF ps = <<>> THEN [migratedEntries |-> 0, skippedEntries |-> 0]
  ELSE LET batchStats == migrateBatchStats(ps[1].rows, TRUE, FALSE)
           rest == DryRunOver(Tail(ps))
       IN  [migratedEntries |-> batchStats.migratedEntries + rest.migratedEntries,
            skippedEntries |-> batchStats.skippedEntries + rest.skippedEntries]

\* C27: a live run that returns reports the skippedEntries a dry run over
\* the same source with the same batch size reports, and, when none of its
\* batch writes failed, the same migratedEntries
C27_DryRunPredicts ==
  (MigrateReturned /\ ~dryRun) =>
    /\ stats.skippedEntries = DryRunOver(pages).skippedEntries
    /\ (\A k \in 1..Len(pages) : pages[k].write # "failed")
         => stats.migratedEntries = DryRunOver(pages).migratedEntries

====
